---- MODULE Spec2Model ----
(***************************************************************************)
(* A model of the Forth evaluator of src/forth/src/lib.rs.                 *)
(*                                                                         *)
(* Text is a sequence of characters, each character a one-element string   *)
(* ("NUL" stands for the control character U+0000).  The interpreter is    *)
(* the pair (stack, words); one call of eval runs the driver loop of       *)
(* lines 66-76, one stage function per step.                               *)
(***************************************************************************)
EXTENDS Integers, Sequences, FiniteSets, TLC

VARIABLES
  stack,            \* Forth.stack: Vec<i32>, oldest cell first
  words,            \* Forth.words: HashMap<String, String>
  input,            \* the local `input` of eval: the remaining text
  pc,               \* the stage function eval calls next; "idle" between calls
  result,           \* what the last eval call returned
  line,             \* the argument of the current (or last) eval call
  stack0,           \* the stack when that call began
  words0,           \* the dictionary when that call began
  calls,            \* how many eval calls were made on the instance
  overflow_checks,  \* the build: TRUE traps on i32 overflow, FALSE wraps
  snapshot          \* what the last stack() call returned

vars == <<stack, words, input, pc, result, line, stack0, words0, calls,
          overflow_checks, snapshot>>

----------------------------------------------------------------------------
(* Bounds of the model.                                                    *)

MaxCalls == 2
MaxInt == 3
MaxStack == 6
MaxCells == 3
MaxLit == 1
MaxTokens == 3
MaxPasses == 8

----------------------------------------------------------------------------
(* Characters and strings.                                                 *)

Digits == <<"0", "1", "2", "3", "4", "5", "6", "7", "8", "9">>

UpperCase == <<"A", "B", "C", "D", "E", "F", "G", "H", "I", "J", "K", "L", "M",
               "N", "O", "P", "Q", "R", "S", "T", "U", "V", "W", "X", "Y", "Z">>

LowerCase == <<"a", "b", "c", "d", "e", "f", "g", "h", "i", "j", "k", "l", "m",
               "n", "o", "p", "q", "r", "s", "t", "u", "v", "w", "x", "y", "z">>

\* char::is_whitespace
is_whitespace(chr) == chr \in {" ", "\t", "\n", "\r"}

\* char::is_control
is_control(chr) == chr \in {"\t", "\n", "\r", "NUL"}

\* a test that takes no character for a digit
NeverNumeric(chr) == FALSE

\* char::is_numeric, on the characters of the model
is_numeric(chr) == \E i \in 1..Len(Digits) : Digits[i] = chr

IsDigit(chr) == \E i \in 1..Len(Digits) : Digits[i] = chr

DigitValue(chr) == (CHOOSE i \in 1..Len(Digits) : Digits[i] = chr) - 1

\* char::to_lowercase
LowerChar(chr) ==
  IF \E i \in 1..Len(UpperCase) : UpperCase[i] = chr
  THEN LowerCase[CHOOSE i \in 1..Len(UpperCase) : UpperCase[i] = chr]
  ELSE chr

\* the string as it is written
SameCase(s) == s

\* str::to_lowercase
to_lowercase(s) == [i \in 1..Len(s) |-> LowerChar(s[i])]

\* s[from..], with `from` a 0-based offset as in the source
SliceFrom(s, from) == SubSeq(s, from + 1, Len(s))

\* s[..to], with `to` a 0-based offset as in the source
SliceTo(s, to) == SubSeq(s, 1, to)

\* chars().position(p): the 0-based offset of the first character with p,
\* or -1 for None
PositionWhitespace(s) ==
  IF \E i \in 1..Len(s) : is_whitespace(s[i])
  THEN (CHOOSE i \in 1..Len(s) :
          is_whitespace(s[i]) /\ \A j \in 1..(i - 1) : ~is_whitespace(s[j])) - 1
  ELSE -1

PositionOf(s, chr) ==
  IF \E i \in 1..Len(s) : s[i] = chr
  THEN (CHOOSE i \in 1..Len(s) :
          s[i] = chr /\ \A j \in 1..(i - 1) : s[j] # chr) - 1
  ELSE -1

\* str::trim_left
trim_left(s) ==
  IF \A i \in 1..Len(s) : is_whitespace(s[i])
  THEN <<>>
  ELSE SliceFrom(s, (CHOOSE i \in 1..Len(s) :
                       ~is_whitespace(s[i])
                       /\ \A j \in 1..(i - 1) : is_whitespace(s[j])) - 1)

\* str::trim_right
trim_right(s) ==
  IF \A i \in 1..Len(s) : is_whitespace(s[i])
  THEN <<>>
  ELSE SliceTo(s, CHOOSE i \in 1..Len(s) :
                    ~is_whitespace(s[i])
                    /\ \A j \in (i + 1)..Len(s) : is_whitespace(s[j]))

\* str::trim
trim(s) == CHOOSE t \in {trim_right(l) : l \in {trim_left(s)}} : TRUE

\* chars().take_while(|c| c != chr)
TakeUntil(s, chr) ==
  IF PositionOf(s, chr) = -1 THEN s ELSE SliceTo(s, PositionOf(s, chr))

\* chars().skip_while(|c| c != chr)
SkipUntil(s, chr) ==
  IF PositionOf(s, chr) = -1 THEN <<>> ELSE SliceFrom(s, PositionOf(s, chr))

\* chars().skip(1)
Skip1(s) == IF s = <<>> THEN <<>> ELSE Tail(s)

----------------------------------------------------------------------------
(* Machine integers: Value = i32, and the u32 of parse_command.            *)

I32_MAX == 2147483647
I32_MIN == -I32_MAX - 1

InI32(v) == I32_MIN <= v /\ v <= I32_MAX

StripZeros(ds) ==
  IF \A i \in 1..Len(ds) : ds[i] = "0"
  THEN <<>>
  ELSE SliceFrom(ds, (CHOOSE i \in 1..Len(ds) :
                        ds[i] # "0" /\ \A j \in 1..(i - 1) : ds[j] = "0") - 1)

\* ds <= es for two digit strings of the same length
RECURSIVE DigitsLeq(_, _)
DigitsLeq(ds, es) ==
  IF ds = <<>> THEN TRUE
  ELSE IF DigitValue(Head(ds)) < DigitValue(Head(es)) THEN TRUE
  ELSE IF DigitValue(Head(ds)) > DigitValue(Head(es)) THEN FALSE
  ELSE DigitsLeq(Tail(ds), Tail(es))

\* the number a digit string denotes is at most the one `limit` denotes
FitsIn(ds, limit) ==
  LET d == StripZeros(ds) IN
    \/ Len(d) < Len(limit)
    \/ Len(d) = Len(limit) /\ DigitsLeq(d, limit)

I32MaxDigits == <<"2", "1", "4", "7", "4", "8", "3", "6", "4", "7">>
I32MinDigits == <<"2", "1", "4", "7", "4", "8", "3", "6", "4", "8">>
U32MaxDigits == <<"4", "2", "9", "4", "9", "6", "7", "2", "9", "5">>

\* minus the number a digit string denotes (at most 2^31)
RECURSIVE NegDigitsValue(_, _)
NegDigitsValue(ds, acc) ==
  IF ds = <<>> THEN acc
  ELSE NegDigitsValue(Tail(ds), acc * 10 - DigitValue(Head(ds)))

\* str::parse::<i32>: an optional sign, then one digit or more, in range
parse_i32(s) ==
  LET signed == s # <<>> /\ s[1] \in {"+", "-"}
      negative == s # <<>> /\ s[1] = "-"
      ds == IF signed THEN Tail(s) ELSE s
  IN IF ds = <<>> \/ \E i \in 1..Len(ds) : ~IsDigit(ds[i])
     THEN [ok |-> FALSE, value |-> 0]
     ELSE IF negative
     THEN IF FitsIn(ds, I32MinDigits)
          THEN [ok |-> TRUE, value |-> NegDigitsValue(StripZeros(ds), 0)]
          ELSE [ok |-> FALSE, value |-> 0]
     ELSE IF FitsIn(ds, I32MaxDigits)
          THEN [ok |-> TRUE, value |-> -NegDigitsValue(StripZeros(ds), 0)]
          ELSE [ok |-> FALSE, value |-> 0]

\* str::parse::<u32>().is_ok(): an optional '+', then one digit or more
parse_u32_is_ok(s) ==
  LET ds == IF s # <<>> /\ s[1] = "+" THEN Tail(s) ELSE s
  IN /\ ds # <<>>
     /\ \A i \in 1..Len(ds) : IsDigit(ds[i])
     /\ FitsIn(ds, U32MaxDigits)

\* i32 addition in a build without overflow checks
WrapAdd(a, b) ==
  IF b > 0 /\ a > I32_MAX - b THEN I32_MIN + ((a - I32_MAX) + (b - 1))
  ELSE IF b < 0 /\ a < I32_MIN - b THEN I32_MAX + ((a - I32_MIN) + (b + 1))
  ELSE a + b

AddOverflows(a, b) ==
  \/ b > 0 /\ a > I32_MAX - b
  \/ b < 0 /\ a < I32_MIN - b

\* i32 subtraction in a build without overflow checks
WrapSub(a, b) ==
  IF b < 0 /\ a > I32_MAX + b THEN I32_MIN + ((a - I32_MAX) - (b + 1))
  ELSE IF b > 0 /\ a < I32_MIN + b THEN I32_MAX + ((a - I32_MIN) - (b - 1))
  ELSE a - b

SubOverflows(a, b) ==
  \/ b < 0 /\ a > I32_MAX + b
  \/ b > 0 /\ a < I32_MIN + b

\* i32 multiplication in a build without overflow checks
RECURSIVE WrapMul(_, _)
WrapMul(a, b) ==
  IF b = 0 THEN 0
  ELSE IF b = -1 THEN WrapSub(0, a)
  ELSE LET half == WrapMul(a, b \div 2)
           twice == WrapAdd(half, half)
       IN IF b % 2 = 0 THEN twice ELSE WrapAdd(twice, a)

Abs(v) == IF v < 0 THEN -v ELSE v

MulOverflows(a, b) ==
  IF a = 0 \/ b = 0 THEN FALSE
  ELSE IF a = I32_MIN THEN b # 1
  ELSE IF b = I32_MIN THEN a # 1
  ELSE IF (a > 0) = (b > 0)
       THEN Abs(a) > I32_MAX \div Abs(b)
       ELSE Abs(a) > I32_MAX \div Abs(b)
            /\ ~(Abs(a) = (I32_MAX \div Abs(b)) + 1
                 /\ (I32_MAX % Abs(b)) + 1 = Abs(b))

\* a division that rounds toward minus infinity instead
FloorDiv(a, b) == a \div b

\* i32 division, which truncates toward zero (b # 0, and not I32_MIN / -1)
TruncDiv(a, b) ==
  LET na == IF a > 0 THEN -a ELSE a
      nb == IF b > 0 THEN -b ELSE b
      q == na \div nb
  IN IF (a >= 0) = (b > 0) THEN q ELSE -q

----------------------------------------------------------------------------
(* The recognizers (lines 153-258).  An Option is a record with `some`.    *)

\* a filter that also drops the blanks a text begins with
filter_and_trim(text) ==
  trim_left([i \in 1..Len(text) |->
               IF is_whitespace(text[i]) \/ is_control(text[i]) THEN " "
               ELSE text[i]])

\* filter_non_words, lines 54-64
filter_non_words(text) ==
  [i \in 1..Len(text) |->
     IF is_whitespace(text[i]) \/ is_control(text[i]) THEN " " ELSE text[i]]

\* parse_digit, lines 153-169
parse_digit(text) ==
  LET position == PositionWhitespace(text) IN
    IF position # -1
    THEN LET head == SliceTo(text, position)
             tail == SliceFrom(text, position)
         IN IF parse_i32(head).ok
            THEN [some |-> TRUE, value |-> parse_i32(head).value,
                  tail |-> trim_left(tail)]
            ELSE [some |-> FALSE, value |-> 0, tail |-> trim(text)]
    ELSE IF parse_i32(text).ok
         THEN [some |-> TRUE, value |-> parse_i32(text).value, tail |-> <<>>]
         ELSE [some |-> FALSE, value |-> 0, tail |-> text]

\* parse_operator, lines 171-184
parse_operator(text) ==
  IF text = <<>>
  THEN [some |-> FALSE, operator |-> "None", tail |-> <<>>]
  ELSE LET head == text[1]
           tail == trim_left(SliceFrom(text, 1))
       IN CASE head = "+" -> [some |-> TRUE, operator |-> "Plus", tail |-> tail]
            [] head = "-" -> [some |-> TRUE, operator |-> "Minus", tail |-> tail]
            [] head = "/" -> [some |-> TRUE, operator |-> "Divide", tail |-> tail]
            [] head = "*" -> [some |-> TRUE, operator |-> "Multiply", tail |-> tail]
            [] OTHER -> [some |-> FALSE, operator |-> "None", tail |-> text]

CommandNames ==
  [Dropp |-> <<"d", "r", "o", "p">>,
   Dup |-> <<"d", "u", "p">>,
   Swap |-> <<"s", "w", "a", "p">>,
   Over |-> <<"o", "v", "e", "r">>]

\* parse_command, lines 186-206
parse_command(text) ==
  IF text = <<>>
  THEN [err |-> "None", some |-> FALSE, command |-> "None", tail |-> <<>>]
  ELSE LET position == PositionWhitespace(text)
           head == IF position # -1
                   THEN to_lowercase(SliceTo(text, position))
                   ELSE to_lowercase(text)
           tail == IF position # -1
                   THEN trim_left(SliceFrom(text, position))
                   ELSE <<>>
       IN CASE head = CommandNames.Dropp ->
                 [err |-> "None", some |-> TRUE, command |-> "Dropp", tail |-> tail]
            [] head = CommandNames.Dup ->
                 [err |-> "None", some |-> TRUE, command |-> "Dup", tail |-> tail]
            [] head = CommandNames.Swap ->
                 [err |-> "None", some |-> TRUE, command |-> "Swap", tail |-> tail]
            [] head = CommandNames.Over ->
                 [err |-> "None", some |-> TRUE, command |-> "Over", tail |-> tail]
            [] OTHER ->
                 IF parse_u32_is_ok(head)
                 THEN [err |-> "None", some |-> FALSE, command |-> "None",
                       tail |-> <<>>]
                 ELSE [err |-> "UnknownWord", some |-> FALSE, command |-> "None",
                       tail |-> <<>>]

\* parse_word_delcaration, lines 208-243
parse_word_delcaration(text) ==
  IF text = <<>> \/ text[1] # ":"
  THEN [err |-> "None", some |-> FALSE, key |-> <<>>, value |-> <<>>,
        tail |-> <<>>]
  ELSE CHOOSE returned \in
         {LET rest == trim(Skip1(SkipUntil(text, ";")))
              key == TakeUntil(body, " ")
              value == Skip1(SkipUntil(body, " "))
              contains_terminator == \E i \in 1..Len(text) : text[i] = ";"
              invalid == [err |-> "InvalidWord", some |-> FALSE, key |-> <<>>,
                          value |-> <<>>, tail |-> <<>>]
          IN IF ~contains_terminator \/ body = <<>> \/ value = <<>>
             THEN invalid
             ELSE IF key = <<>> THEN invalid
             ELSE IF is_numeric(key[1]) THEN invalid
             ELSE [err |-> "None", some |-> TRUE, key |-> to_lowercase(key),
                   value |-> value, tail |-> rest] :
            body \in {trim(TakeUntil(Skip1(text), ";"))}} : TRUE

\* a lookup of the head as it is written
parse_word_exact(dict, text) ==
  LET position == PositionWhitespace(text)
      head == IF position # -1 THEN SliceTo(text, position) ELSE text
      tail == IF position # -1 THEN SliceFrom(text, position) ELSE <<>>
  IN IF head \in DOMAIN dict
     THEN [some |-> TRUE, value |-> dict[head] \o tail, tail |-> <<>>]
     ELSE [some |-> FALSE, value |-> <<>>, tail |-> text]

\* parse_word, lines 245-258
parse_word(dict, text) ==
  LET position == PositionWhitespace(text)
      head == IF position # -1 THEN SliceTo(text, position) ELSE text
      tail == IF position # -1 THEN SliceFrom(text, position) ELSE <<>>
  IN IF to_lowercase(head) \in DOMAIN dict
     THEN [some |-> TRUE, value |-> dict[to_lowercase(head)] \o tail,
           tail |-> <<>>]
     ELSE [some |-> FALSE, value |-> <<>>, tail |-> text]

\* HashMap::insert
Insert(dict, key, value) ==
  [k \in DOMAIN dict \cup {key} |-> IF k = key THEN value ELSE dict[k]]

\* a pop that also fails on the last cell
PopOkOffByOne(stk) == Len(stk) > 1

\* Vec::pop returns Some (and `?` goes on) when the stack holds a cell; on None
\* the `?` returns StackUnderflow, lines 34-38
PopOk(stk) == Len(stk) > 0

\* the stack Vec::pop leaves
Pop(stk) == SubSeq(stk, 1, Len(stk) - 1)

\* the oldest cell instead of the newest
Bottom(stk) == stk[1]

\* the cell Vec::pop and iter().last() give: the one pushed last
Top(stk) == stk[Len(stk)]

----------------------------------------------------------------------------
(* The stage functions (lines 78-151), each the whole of its loop.  An     *)
(* iteration binds what its recognizer returned as the one element of a    *)
(* singleton set, so that it is computed once.                             *)

\* eval_digits, lines 78-84
RECURSIVE eval_digits(_, _)
eval_digits(stk, text) ==
  CHOOSE returned \in
    {IF parsed.some
     THEN eval_digits(Append(stk, parsed.value), parsed.tail)
     ELSE [stack |-> stk, input |-> text] :
       parsed \in {parse_digit(text)}} : TRUE

\* one iteration of eval_operators, lines 88-100: the two pops, then the match
apply_operator(stk, operator, checks) ==
  IF ~PopOk(stk) THEN [err |-> "StackUnderflow", stack |-> stk]
  ELSE IF ~PopOk(Pop(stk)) THEN [err |-> "StackUnderflow", stack |-> Pop(stk)]
  ELSE LET value2 == Top(stk)
           value1 == Top(Pop(stk))
           popped == Pop(Pop(stk))
       IN CASE operator = "Plus" ->
                 IF checks /\ AddOverflows(value1, value2)
                 THEN [err |-> "Panic", stack |-> popped]
                 ELSE [err |-> "None",
                       stack |-> Append(popped, WrapAdd(value1, value2))]
            [] operator = "Minus" ->
                 IF checks /\ SubOverflows(value1, value2)
                 THEN [err |-> "Panic", stack |-> popped]
                 ELSE [err |-> "None",
                       stack |-> Append(popped, WrapSub(value1, value2))]
            [] operator = "Divide" ->
                 IF value2 = 0
                 THEN [err |-> "DivisionByZero", stack |-> popped]
                 ELSE IF value1 = I32_MIN /\ value2 = -1
                 THEN [err |-> "Panic", stack |-> popped]
                 ELSE [err |-> "None",
                       stack |-> Append(popped, TruncDiv(value1, value2))]
            [] operator = "Multiply" ->
                 IF checks /\ MulOverflows(value1, value2)
                 THEN [err |-> "Panic", stack |-> popped]
                 ELSE [err |-> "None",
                       stack |-> Append(popped, WrapMul(value1, value2))]

\* eval_operators, lines 86-104
RECURSIVE eval_operators(_, _, _)
eval_operators(stk, text, checks) ==
  CHOOSE returned \in
    {IF parsed.some
     THEN CHOOSE inner \in
            {IF applied.err # "None"
             THEN [err |-> applied.err, stack |-> applied.stack, input |-> <<>>]
             ELSE eval_operators(applied.stack, parsed.tail, checks) :
               applied \in {apply_operator(stk, parsed.operator, checks)}} : TRUE
     ELSE [err |-> "None", stack |-> stk, input |-> text] :
       parsed \in {parse_operator(text)}} : TRUE

\* eval_word_declarations, lines 106-112
RECURSIVE eval_word_declarations(_, _)
eval_word_declarations(dict, text) ==
  CHOOSE returned \in
    {IF parsed.err # "None"
     THEN [err |-> parsed.err, words |-> dict, input |-> <<>>]
     ELSE IF parsed.some
     THEN eval_word_declarations(Insert(dict, parsed.key, parsed.value),
                                 parsed.tail)
     ELSE [err |-> "None", words |-> dict, input |-> text] :
       parsed \in {parse_word_delcaration(text)}} : TRUE

\* eval_word, lines 114-119
eval_word(dict, text) ==
  LET parsed == parse_word(dict, text) IN
    IF parsed.some THEN parsed.value \o parsed.tail ELSE text

\* commands that test the depth of the stack before they pop
apply_command_checked(stk, command) ==
  CASE command = "Swap" ->
         IF ~PopOk(stk) THEN [err |-> "StackUnderflow", stack |-> stk]
         ELSE IF ~PopOk(Pop(stk))
         THEN [err |-> "StackUnderflow", stack |-> stk]
         ELSE LET value2 == Top(stk)
                  value1 == Top(Pop(stk))
              IN [err |-> "None",
                  stack |-> Append(Append(Pop(Pop(stk)), value2), value1)]
    [] command = "Dropp" ->
         IF ~PopOk(stk) THEN [err |-> "StackUnderflow", stack |-> stk]
         ELSE [err |-> "None", stack |-> Pop(stk)]
    [] command = "Dup" ->
         IF ~PopOk(stk) THEN [err |-> "StackUnderflow", stack |-> stk]
         ELSE [err |-> "None", stack |-> Append(stk, Top(stk))]
    [] command = "Over" ->
         IF ~PopOk(stk) THEN [err |-> "StackUnderflow", stack |-> stk]
         ELSE IF ~PopOk(Pop(stk))
         THEN [err |-> "StackUnderflow", stack |-> stk]
         ELSE LET value2 == Top(stk)
                  value1 == Top(Pop(stk))
              IN [err |-> "None",
                  stack |-> Append(Append(Append(Pop(Pop(stk)), value1), value2),
                                   value1)]

\* one iteration of eval_commands, lines 123-147 (parse_command never returns a
\* Word, so that arm of the match is not reached)
apply_command(stk, command) ==
  CASE command = "Swap" ->
         IF ~PopOk(stk) THEN [err |-> "StackUnderflow", stack |-> stk]
         ELSE IF ~PopOk(Pop(stk))
         THEN [err |-> "StackUnderflow", stack |-> Pop(stk)]
         ELSE LET value2 == Top(stk)
                  value1 == Top(Pop(stk))
              IN [err |-> "None",
                  stack |-> Append(Append(Pop(Pop(stk)), value2), value1)]
    [] command = "Dropp" ->
         IF ~PopOk(stk) THEN [err |-> "StackUnderflow", stack |-> stk]
         ELSE [err |-> "None", stack |-> Pop(stk)]
    [] command = "Dup" ->
         IF ~PopOk(stk) THEN [err |-> "StackUnderflow", stack |-> stk]
         ELSE [err |-> "None", stack |-> Append(stk, Top(stk))]
    [] command = "Over" ->
         IF ~PopOk(stk) THEN [err |-> "StackUnderflow", stack |-> stk]
         ELSE IF ~PopOk(Pop(stk))
         THEN [err |-> "StackUnderflow", stack |-> Pop(stk)]
         ELSE LET value2 == Top(stk)
                  value1 == Top(Pop(stk))
              IN [err |-> "None",
                  stack |-> Append(Append(Append(Pop(Pop(stk)), value1), value2),
                                   value1)]

\* a command stage that continues with the tail parse_command returns with
\* None
RECURSIVE eval_commands_discard(_, _)
eval_commands_discard(stk, text) ==
  CHOOSE returned \in
    {IF parsed.err # "None"
     THEN [err |-> parsed.err, stack |-> stk, input |-> <<>>]
     ELSE IF parsed.some
     THEN CHOOSE inner \in
            {IF applied.err # "None"
             THEN [err |-> applied.err, stack |-> applied.stack, input |-> <<>>]
             ELSE eval_commands_discard(applied.stack, parsed.tail) :
               applied \in {apply_command(stk, parsed.command)}} : TRUE
     ELSE [err |-> "None", stack |-> stk, input |-> parsed.tail] :
       parsed \in {parse_command(text)}} : TRUE

\* eval_commands, lines 121-151
RECURSIVE eval_commands(_, _)
eval_commands(stk, text) ==
  CHOOSE returned \in
    {IF parsed.err # "None"
     THEN [err |-> parsed.err, stack |-> stk, input |-> <<>>]
     ELSE IF parsed.some
     THEN CHOOSE inner \in
            {IF applied.err # "None"
             THEN [err |-> applied.err, stack |-> applied.stack, input |-> <<>>]
             ELSE eval_commands(applied.stack, parsed.tail) :
               applied \in {apply_command(stk, parsed.command)}} : TRUE
     ELSE [err |-> "None", stack |-> stk, input |-> text] :
       parsed \in {parse_command(text)}} : TRUE

----------------------------------------------------------------------------
(* The interpreter: new, eval (one step per stage of its loop) and stack.  *)

Errors == {"DivisionByZero", "StackUnderflow", "UnknownWord", "InvalidWord"}

EmptyWords == [k \in {} |-> <<>>]

\* Forth::new, lines 47-49, in either build
Init ==
  /\ stack = <<>>
  /\ words = EmptyWords
  /\ input = <<>>
  /\ pc = "idle"
  /\ result = "None"
  /\ line = <<>>
  /\ stack0 = <<>>
  /\ words0 = EmptyWords
  /\ calls = 0
  /\ overflow_checks \in BOOLEAN
  /\ snapshot = <<>>

\* a stack of more than MaxStack cells does not fit the memory: Vec::push
\* aborts the process
Exhausted(stk) == Len(stk) > MaxStack

\* how a stage ends with `?` (lines 70-73): an Err returns from eval; a panic
\* or an allocation failure ends the call without a return
Leave(err) ==
  /\ input' = <<>>
  /\ result' = err
  /\ pc' = IF err \in Errors THEN "idle" ELSE "aborted"

\* the test of the while loop, line 68, and the Ok(()) of line 75
Loop(text) ==
  /\ input' = text
  /\ IF text = <<>>
     THEN result' = "Ok" /\ pc' = "idle"
     ELSE result' = "Running" /\ pc' = "eval_digits"

\* eval is called with `text`, lines 66-68
Eval(text) ==
  /\ pc = "idle"
  /\ calls < MaxCalls
  /\ calls' = calls + 1
  /\ line' = text
  /\ stack0' = stack
  /\ words0' = words
  /\ Loop(filter_non_words(text))
  /\ UNCHANGED <<stack, words, overflow_checks, snapshot>>

\* line 69
StepDigits ==
  /\ pc = "eval_digits"
  /\ LET r == eval_digits(stack, input) IN
       /\ stack' = r.stack
       /\ IF Exhausted(r.stack)
          THEN Leave("OutOfMemory")
          ELSE input' = r.input /\ pc' = "eval_operators" /\ UNCHANGED result
  /\ UNCHANGED <<words, line, stack0, words0, calls, overflow_checks, snapshot>>

\* line 70
StepOperators ==
  /\ pc = "eval_operators"
  /\ LET r == eval_operators(stack, input, overflow_checks) IN
       /\ stack' = r.stack
       /\ IF r.err # "None"
          THEN Leave(r.err)
          ELSE input' = r.input /\ pc' = "eval_word_declarations"
                 /\ UNCHANGED result
  /\ UNCHANGED <<words, line, stack0, words0, calls, overflow_checks, snapshot>>

\* line 71
StepWordDeclarations ==
  /\ pc = "eval_word_declarations"
  /\ LET r == eval_word_declarations(words, input) IN
       /\ words' = r.words
       /\ IF r.err # "None"
          THEN Leave(r.err)
          ELSE input' = r.input /\ pc' = "eval_word" /\ UNCHANGED result
  /\ UNCHANGED <<stack, line, stack0, words0, calls, overflow_checks, snapshot>>

\* line 72
StepWord ==
  /\ pc = "eval_word"
  /\ input' = eval_word(words, input)
  /\ pc' = "eval_commands"
  /\ UNCHANGED <<stack, words, result, line, stack0, words0, calls,
                 overflow_checks, snapshot>>

\* a step that puts back the stack the call began with when a command fails
StepCommandsRollback ==
  /\ pc = "eval_commands"
  /\ LET r == eval_commands(stack, input) IN
       IF r.err # "None" THEN stack' = stack0 /\ Leave(r.err)
       ELSE /\ stack' = r.stack
            /\ IF Exhausted(r.stack) THEN Leave("OutOfMemory")
               ELSE Loop(r.input)
  /\ UNCHANGED <<words, line, stack0, words0, calls, overflow_checks, snapshot>>

\* lines 73-75 and the loop test of line 68
StepCommands ==
  /\ pc = "eval_commands"
  /\ LET r == eval_commands(stack, input) IN
       /\ stack' = r.stack
       /\ IF r.err # "None" THEN Leave(r.err)
          ELSE IF Exhausted(r.stack) THEN Leave("OutOfMemory")
          ELSE Loop(r.input)
  /\ UNCHANGED <<words, line, stack0, words0, calls, overflow_checks, snapshot>>

\* a stack() that moves the vector out of the interpreter
StackTake ==
  /\ pc = "idle"
  /\ snapshot' = stack
  /\ stack' = <<>>
  /\ UNCHANGED <<words, input, pc, result, line, stack0, words0, calls,
                 overflow_checks>>

\* stack(), lines 50-52
Stack ==
  /\ pc = "idle"
  /\ snapshot' = stack
  /\ UNCHANGED <<stack, words, input, pc, result, line, stack0, words0, calls,
                 overflow_checks>>

\* the stages of one pass of the driver loop
Driver ==
  \/ StepDigits
  \/ StepOperators
  \/ StepWordDeclarations
  \/ StepWord
  \/ StepCommands

----------------------------------------------------------------------------
(* eval as a function of the interpreter and the text: the passes of the   *)
(* loop of lines 68-74 composed, for at most MaxPasses passes.             *)

\* one pass of the loop, lines 69-73
pass(stk, dict, text, checks) ==
  LET d == eval_digits(stk, text)
      o == eval_operators(d.stack, d.input, checks)
      w == eval_word_declarations(dict, o.input)
      e == eval_word(w.words, w.input)
      c == eval_commands(o.stack, e)
  IN IF Exhausted(d.stack)
     THEN [err |-> "OutOfMemory", stack |-> d.stack, words |-> dict,
           input |-> <<>>]
     ELSE IF o.err # "None"
     THEN [err |-> o.err, stack |-> o.stack, words |-> dict, input |-> <<>>]
     ELSE IF w.err # "None"
     THEN [err |-> w.err, stack |-> o.stack, words |-> w.words, input |-> <<>>]
     ELSE IF c.err # "None"
     THEN [err |-> c.err, stack |-> c.stack, words |-> w.words, input |-> <<>>]
     ELSE IF Exhausted(c.stack)
     THEN [err |-> "OutOfMemory", stack |-> c.stack, words |-> w.words,
           input |-> <<>>]
     ELSE [err |-> "None", stack |-> c.stack, words |-> w.words,
           input |-> c.input]

\* the while loop of eval, lines 68-75, cut after `fuel` passes
RECURSIVE run(_, _, _, _, _)
run(stk, dict, text, checks, fuel) ==
  IF text = <<>> THEN [result |-> "Ok", stack |-> stk, words |-> dict]
  ELSE IF fuel = 0 THEN [result |-> "Running", stack |-> stk, words |-> dict]
  ELSE LET p == pass(stk, dict, text, checks) IN
         IF p.err # "None"
         THEN [result |-> p.err, stack |-> p.stack, words |-> p.words]
         ELSE run(p.stack, p.words, p.input, checks, fuel - 1)

\* eval, lines 66-76: what it returns and the interpreter it leaves
eval(stk, dict, text, checks) ==
  run(stk, dict, filter_non_words(text), checks, MaxPasses)

----------------------------------------------------------------------------
(* The text of input lines.                                                *)

RECURSIVE NatNumeral(_)
NatNumeral(n) ==
  IF n < 10 THEN <<Digits[n + 1]>>
  ELSE NatNumeral(n \div 10) \o <<Digits[(n % 10) + 1]>>

\* what a call leaves: its result and the interpreter
Outcome == [result |-> result, stack |-> stack, words |-> words]

\* the decimal numeral of an integer, "-" first when it is negative
Numeral(n) == IF n < 0 THEN <<"-">> \o NatNumeral(-n) ELSE NatNumeral(n)

\* tokens joined by single spaces
RECURSIVE Phrase(_)
Phrase(tokens) ==
  IF tokens = <<>> THEN <<>>
  ELSE IF Len(tokens) = 1 THEN tokens[1]
  ELSE tokens[1] \o <<" ">> \o Phrase(Tail(tokens))

Ints == (-MaxInt)..MaxInt

OperatorChars == {"+", "-", "*", "/"}

----------------------------------------------------------------------------
(* Arithmetic on a fresh interpreter: one call of eval with "a b op".      *)

ArithLine(a, b, op) == Phrase(<<Numeral(a), Numeral(b), <<op>>>>)

EvalArith ==
  \E a \in Ints, b \in Ints, op \in OperatorChars :
    calls = 0 /\ Eval(ArithLine(a, b, op))

NextArith == EvalArith \/ Driver

SpecArith == Init /\ [][NextArith]_vars

\* the call has returned
Returned == pc = "idle" /\ calls > 0

\* C1: on a fresh interpreter "a b op" leaves the one cell a+b, a-b, a*b, or
\* the quotient a/b truncated toward zero (the first literal is the left
\* operand); "a 0 /" returns DivisionByZero.
C1_Arithmetic ==
  \A a \in Ints, b \in Ints :
    /\ (Returned /\ line = ArithLine(a, b, "+"))
         => result = "Ok" /\ stack = <<a + b>>
    /\ (Returned /\ line = ArithLine(a, b, "-"))
         => result = "Ok" /\ stack = <<a - b>>
    /\ (Returned /\ line = ArithLine(a, b, "*"))
         => result = "Ok" /\ stack = <<a * b>>
    /\ (Returned /\ line = ArithLine(a, b, "/") /\ b # 0)
         => /\ result = "Ok"
            /\ Len(stack) = 1
            /\ LET q == stack[1]
                   r == a - q * b
               IN /\ Abs(r) < Abs(b)
                  /\ (a >= 0 => r >= 0)
                  /\ (a <= 0 => r <= 0)
    /\ (Returned /\ line = ArithLine(a, b, "/") /\ b = 0)
         => result = "DivisionByZero"

\* "-3 2 /" has returned Ok with the quotient -1, and not the floor -2
C1_Witness ==
  /\ Returned
  /\ line = ArithLine(-3, 2, "/")
  /\ result = "Ok"
  /\ stack = <<-1>>

\* C7 as claimed: a division by zero returns DivisionByZero with both operands
\* still on the stack.
C7_OperandsKept ==
  \A a \in Ints :
    (Returned /\ line = ArithLine(a, 0, "/"))
      => result = "DivisionByZero" /\ stack = <<a, 0>>

----------------------------------------------------------------------------
(* One built-in command or operator on a prepared stack: a first call      *)
(* declares at most one word and pushes literals, a second call evaluates  *)
(* the single token.                                                       *)

Foo == <<"f", "o", "o">>

\* ": name body ;"
Declaration(name, body) == Phrase(<<<<":">>, name>> \o body \o <<<<";">>>>)

\* no declaration, a word that shadows no command, a word that shadows swap
PreludeDeclarations ==
  {<<>>,
   <<Declaration(Foo, <<CommandNames.Dup>>)>>,
   <<Declaration(CommandNames.Swap, <<CommandNames.Dropp>>)>>}

CellSeqs == UNION {[1..n -> 0..MaxLit] : n \in 0..MaxCells}

PreludeLine(decl, cells) ==
  Phrase(decl \o [i \in 1..Len(cells) |-> Numeral(cells[i])])

SingleTokens ==
  {CommandNames.Dropp, CommandNames.Dup, CommandNames.Swap, CommandNames.Over}
    \cup {<<op>> : op \in OperatorChars}

EvalPrelude ==
  \E decl \in PreludeDeclarations, cells \in CellSeqs :
    calls = 0 /\ Eval(PreludeLine(decl, cells))

EvalSingle ==
  \E token \in SingleTokens : calls = 1 /\ Eval(token)

NextSingle == EvalPrelude \/ EvalSingle \/ Driver

SpecSingle == Init /\ [][NextSingle]_vars

\* no user word has the name of a built-in command
NoShadow(dict) ==
  \A c \in DOMAIN CommandNames : CommandNames[c] \notin DOMAIN dict

\* the cells a command or an operator takes from the stack
Needs(token) ==
  IF token \in {CommandNames.Dropp, CommandNames.Dup} THEN 1 ELSE 2

\* C2: with no word shadowing the command names and enough cells, dup appends
\* a copy of the top cell, drop removes the top cell, swap exchanges the two top
\* cells and over appends a copy of the second cell from the top; the cells
\* below stay as they were.
C2_Commands ==
  LET n == Len(stack0)
      base == SubSeq(stack0, 1, n - 2)
      ran(token) == /\ Returned /\ calls = 2 /\ line = token
                    /\ NoShadow(words0) /\ n >= Needs(token)
  IN /\ ran(CommandNames.Dup)
          => result = "Ok" /\ stack = stack0 \o <<stack0[n]>>
     /\ ran(CommandNames.Dropp)
          => result = "Ok" /\ stack = SubSeq(stack0, 1, n - 1)
     /\ ran(CommandNames.Swap)
          => result = "Ok" /\ stack = base \o <<stack0[n], stack0[n - 1]>>
     /\ ran(CommandNames.Over)
          => result = "Ok" /\ stack = stack0 \o <<stack0[n - 1]>>

\* over has run on the stack [0, 0, 1] and left [0, 0, 1, 0]
C2_Witness ==
  /\ Returned /\ calls = 2
  /\ line = CommandNames.Over
  /\ NoShadow(words0)
  /\ stack0 = <<0, 0, 1>>
  /\ stack = <<0, 0, 1, 0>>

\* C3: a command or an operator returns StackUnderflow exactly when the stack
\* holds fewer cells than it takes: one for drop and dup, two for swap, over
\* and the four operators.
C3_Underflow ==
  \A token \in SingleTokens :
    (Returned /\ calls = 2 /\ line = token /\ NoShadow(words0))
      => (result = "StackUnderflow" <=> Len(stack0) < Needs(token))

\* swap on a stack of one cell has returned StackUnderflow
C3_Witness ==
  /\ Returned /\ calls = 2
  /\ line = CommandNames.Swap
  /\ NoShadow(words0)
  /\ Len(stack0) = 1
  /\ result = "StackUnderflow"

----------------------------------------------------------------------------
(* Lines of tokens on a prepared interpreter: a first call declares foo    *)
(* (and bar) and may push two cells, a second call evaluates a line of at  *)
(* most MaxTokens tokens, each a literal, an operator, a command or foo.   *)

Bar == <<"b", "a", "r">>

\* the values foo is declared with: a number, a negative number, an operator,
\* a command, another user word, a number and an operator
FooValues ==
  {<<Numeral(1)>>, <<Numeral(-1)>>, <<<<"+">>>>, <<CommandNames.Dup>>, <<Bar>>,
   <<Numeral(1), <<"+">>>>}

DictionaryLines ==
  {Phrase(<<Declaration(Bar, <<Numeral(2)>>), Declaration(Foo, value)>> \o cells) :
     value \in FooValues, cells \in {<<>>, <<Numeral(1), Numeral(1)>>}}
    \cup {<<>>, Phrase(<<Numeral(1), Numeral(1)>>)}

Vocabulary == {Numeral(1), Numeral(-1), <<"+">>, CommandNames.Dup, Foo}

TokenSeqs == UNION {[1..n -> Vocabulary] : n \in 1..MaxTokens}

EvalDictionary ==
  \E text \in DictionaryLines : calls = 0 /\ Eval(text)

EvalTokens ==
  \E tokens \in TokenSeqs : calls = 1 /\ Eval(Phrase(tokens))

NextTokens == EvalDictionary \/ EvalTokens \/ Driver

SpecTokens == Init /\ [][NextTokens]_vars

\* the call has ended: eval has returned, or the process is gone
Ended == pc \in {"idle", "aborted"} /\ calls > 0

\* the tokens of a text: its maximal runs of characters other than whitespace
RECURSIVE TokensOf(_)
TokensOf(text) ==
  LET t == trim_left(text)
      position == PositionWhitespace(t)
  IN IF t = <<>> THEN <<>>
     ELSE IF position = -1 THEN <<t>>
     ELSE <<SliceTo(t, position)>> \o TokensOf(SliceFrom(t, position))

IsLiteral(token) == parse_i32(token).ok

IsOperator(token) == Len(token) = 1 /\ token[1] \in OperatorChars

IsCommand(token) ==
  \E c \in DOMAIN CommandNames : to_lowercase(token) = CommandNames[c]

IsKnownWord(token, dict) == to_lowercase(token) \in DOMAIN dict

\* C4 as claimed: with w -> v in the dictionary, evaluating "w T" ends as
\* evaluating "v T" does: the same result, the same stack, the same dictionary.
C4_Substitution ==
  \A w \in DOMAIN words0 :
    (Ended /\ calls = 2 /\ line # <<>> /\ TokensOf(line)[1] = w)
      => Outcome = eval(stack0, words0, words0[w] \o SliceFrom(line, Len(w)),
                        overflow_checks)

\* C5 as claimed: a line made only of integer literals, operators, commands
\* and words of the dictionary never returns UnknownWord.
C5_NoUnknownWord ==
  (Returned /\ calls = 2
     /\ \A i \in 1..Len(TokensOf(line)) :
          LET token == TokensOf(line)[i] IN
            \/ IsLiteral(token)
            \/ IsOperator(token)
            \/ IsCommand(token)
            \/ IsKnownWord(token, words0))
    => result # "UnknownWord"

----------------------------------------------------------------------------
(* Termination of eval.  The driver loop runs on its own once eval is      *)
(* called, so its stages are weakly fair.                                  *)

\* 2^31 - 1, 2^31, 3 * 10^9, 2^32 - 1 and 2^32
BigNumerals ==
  {I32MaxDigits, I32MinDigits,
   <<"3", "0", "0", "0", "0", "0", "0", "0", "0", "0">>,
   U32MaxDigits,
   <<"4", "2", "9", "4", "9", "6", "7", "2", "9", "6">>}

\* a word whose body names the word itself: after a literal, and after a
\* literal and an operator
SelfReferences ==
  {Phrase(<<Declaration(Foo, <<Numeral(1), Foo>>), Foo>>),
   Phrase(<<Declaration(Foo, <<Numeral(0), <<"+">>, Foo>>), Numeral(1), Foo>>)}

LoopLines ==
  BigNumerals \cup SelfReferences
    \cup {Phrase(<<Numeral(1), Numeral(2), <<"+">>>>), Foo}

EvalLoop ==
  \E text \in LoopLines : Eval(text)

NextLoop == EvalLoop \/ Driver

SpecLoop == Init /\ [][NextLoop]_vars /\ WF_vars(Driver)

\* C6 as claimed: every call of eval ends after finitely many passes of the
\* driver loop.
C6_Terminates == (pc \notin {"idle", "aborted"}) ~> (pc \in {"idle", "aborted"})

----------------------------------------------------------------------------
(* Successive calls on one instance: lines that declare foo, use it,       *)
(* redeclare it and use it again, and lines that fail at their last token. *)

Baz == <<"b", "a", "z">>

\* the values foo is declared with, and redeclared with
RedefinitionValues == {<<Numeral(1)>>, <<Numeral(2)>>, <<CommandNames.Dup>>}

\* ": foo v1 ; foo : foo v2 ; foo"
RedefinitionLine(v1, v2) ==
  Phrase(<<Declaration(Foo, v1), Foo, Declaration(Foo, v2), Foo>>)

\* ": foo v ; foo"
DeclareAndUse(v) == Phrase(<<Declaration(Foo, v), Foo>>)

\* texts that evaluate without an error on a fresh interpreter
GoodPrefixes ==
  {Declaration(Foo, <<Numeral(1)>>),
   Phrase(<<Numeral(1), Numeral(2), <<"+">>>>),
   Phrase(<<Numeral(1), CommandNames.Dup>>),
   Phrase(<<Declaration(Foo, <<Numeral(1)>>), Numeral(1), Numeral(2), <<"+">>>>)}

\* tokens that fail where they stand: an unknown word, a declaration with no
\* terminator
FailingTokens == {Baz, <<":">>}

FailingLine(prefix, token) == prefix \o <<" ">> \o token

Lines ==
  {RedefinitionLine(v1, v2) : v1 \in RedefinitionValues, v2 \in RedefinitionValues}
    \cup {DeclareAndUse(v) : v \in RedefinitionValues}
    \cup {FailingLine(prefix, token) :
            prefix \in GoodPrefixes, token \in FailingTokens}
    \cup {Foo}

EvalLine ==
  \E text \in Lines : Eval(text)

Next == EvalLine \/ Driver

Spec == Init /\ [][Next]_vars

ValueOutcome(stk, dict, value) ==
  eval(stk, dict, Phrase(value), overflow_checks)

\* C10: a redefinition takes effect for the uses that follow it and for no
\* earlier one.  In one line, the use before the redeclaration evaluates v1 and
\* the use after it evaluates v2; across calls, a use evaluates the value foo
\* has when it runs; after a redeclaration the dictionary maps foo to v2.
C10_Redefinition ==
  /\ \A v1 \in RedefinitionValues, v2 \in RedefinitionValues :
       LET first == ValueOutcome(stack0, words0, v1)
           second == ValueOutcome(first.stack, words0, v2)
       IN (Returned /\ line = RedefinitionLine(v1, v2))
            => IF first.result # "Ok"
               THEN /\ result = first.result
                    /\ stack = first.stack
                    /\ words[Foo] = Phrase(v1)
               ELSE /\ result = second.result
                    /\ stack = second.stack
                    /\ words[Foo] = Phrase(v2)
  /\ \A v \in RedefinitionValues :
       (Returned /\ line = DeclareAndUse(v))
         => /\ result = ValueOutcome(stack0, words0, v).result
            /\ stack = ValueOutcome(stack0, words0, v).stack
            /\ words[Foo] = Phrase(v)
  /\ (Returned /\ line = Foo /\ Foo \in DOMAIN words0)
       => /\ result = eval(stack0, words0, words0[Foo], overflow_checks).result
          /\ stack = eval(stack0, words0, words0[Foo], overflow_checks).stack
          /\ words = words0

----------------------------------------------------------------------------
(* Word declarations, well formed and malformed, on a fresh interpreter:   *)
(* one call with a line  <before> : <name> <value> <terminator> <after>.   *)

DeclarationNames ==
  {<<>>, Foo, <<"F", "o", "o">>, <<"1">> \o Foo, <<"-", "1">>}

DeclarationValues ==
  {<<>>, Numeral(1), Phrase(<<CommandNames.Dup, CommandNames.Dup>>)}

Spaces == {<<>>, <<" ">>}

TextsBefore == {<<>>, <<"1", " ">>, <<"1", " ", "1", " ", "+", " ">>}

TextsAfter ==
  {<<>>, <<" ", "2">>, <<" ">> \o Declaration(Bar, <<Numeral(2)>>),
   <<" ", ":", " ", ";">>}

DeclarationLine(before, s1, name, s2, value, s3, terminator, after) ==
  before \o <<":">> \o s1 \o name \o s2 \o value \o s3 \o terminator \o after

EvalDeclaration ==
  \E before \in TextsBefore, s1 \in Spaces, name \in DeclarationNames,
     s2 \in Spaces, value \in DeclarationValues, s3 \in Spaces,
     terminator \in {<<>>, <<";">>}, after \in TextsAfter :
    /\ calls = 0
    /\ Eval(DeclarationLine(before, s1, name, s2, value, s3, terminator, after))

NextDeclaration == EvalDeclaration \/ Driver

SpecDeclaration == Init /\ [][NextDeclaration]_vars

\* the text has a ';'
HasTerminator(text) == \E i \in 1..Len(text) : text[i] = ";"

\* the tokens between the ':' the text begins with and its first ';'
BodyTokens(text) == TokensOf(SubSeq(text, 2, PositionOf(text, ";")))

\* a text that begins with ':' begins with a malformed declaration: it has no
\* ';', or no name, or no value after the name, or a name that begins with a
\* digit
Malformed(text) ==
  \/ ~HasTerminator(text)
  \/ Len(BodyTokens(text)) < 2
  \/ IsDigit(BodyTokens(text)[1][1])

\* one of the declarations the text begins with is malformed
RECURSIVE SomeMalformed(_)
SomeMalformed(text) ==
  LET t == trim_left(text) IN
    IF t = <<>> \/ t[1] # ":" THEN FALSE
    ELSE IF Malformed(t) THEN TRUE
    ELSE SomeMalformed(SliceFrom(t, PositionOf(t, ";") + 1))

\* C9: when the declaration stage meets a malformed declaration at the start
\* of the remaining input (no ';', no name, a name with no value, a name that
\* begins with a digit), eval returns InvalidWord and the dictionary is as it
\* was; when every declaration it meets is well formed, it does not return
\* InvalidWord and the first name, in lower case, is in the dictionary.
C9_InvalidWord ==
  [][(pc = "eval_word_declarations" /\ input # <<>> /\ input[1] = ":")
       => /\ Malformed(input)
               => result' = "InvalidWord" /\ pc' = "idle" /\ words' = words
          /\ SomeMalformed(input) => result' = "InvalidWord"
          /\ ~SomeMalformed(input)
               => /\ result' # "InvalidWord"
                  /\ to_lowercase(BodyTokens(input)[1]) \in DOMAIN words']_vars

\* ": 1foo 1 ;" has returned InvalidWord and the dictionary is empty
C9_Witness ==
  /\ Returned
  /\ line = DeclarationLine(<<>>, <<" ">>, <<"1">> \o Foo, <<" ">>, Numeral(1),
                            <<" ">>, <<";">>, <<>>)
  /\ result = "InvalidWord"
  /\ words = EmptyWords

----------------------------------------------------------------------------
(* Letter case: one call on a fresh interpreter with a line that declares  *)
(* foo and then uses foo and the commands, each name in lower case,        *)
(* capitalised or in upper case.                                           *)

UpperChar(chr) ==
  IF \E i \in 1..Len(LowerCase) : LowerCase[i] = chr
  THEN UpperCase[CHOOSE i \in 1..Len(LowerCase) : LowerCase[i] = chr]
  ELSE chr

\* the name in lower case, capitalised, in upper case
CaseVariants(name) ==
  {name,
   [i \in 1..Len(name) |-> IF i = 1 THEN UpperChar(name[i]) ELSE name[i]],
   [i \in 1..Len(name) |-> UpperChar(name[i])]}

CaseValues == CaseVariants(CommandNames.Dup) \cup {Numeral(2)}

CaseTokens ==
  CaseVariants(Foo) \cup CaseVariants(CommandNames.Dup)
    \cup CaseVariants(CommandNames.Swap) \cup {Numeral(1)}

CaseLine(name, value, uses) ==
  Phrase(<<Declaration(name, <<value>>), Numeral(1)>> \o uses)

EvalCase ==
  \E name \in CaseVariants(Foo), value \in CaseValues,
     uses \in UNION {[1..n -> CaseTokens] : n \in 1..2} :
    /\ calls = 0
    /\ Eval(CaseLine(name, value, uses))

NextCase == EvalCase \/ Driver

SpecCase == Init /\ [][NextCase]_vars

\* C11: names are case-insensitive.  A line in which the declared name (in its
\* declaration and at its uses) and drop/dup/swap/over are written in any
\* letter case returns the result and leaves the stack of the same line in
\* lower case.
C11_CaseInsensitive ==
  Ended =>
    LET lower == eval(stack0, words0, to_lowercase(line), overflow_checks) IN
      result = lower.result /\ stack = lower.stack

\* ": Foo DUP ; 1 FOO Swap" has returned Ok with the stack [1, 1], as
\* ": foo dup ; 1 foo swap" does
C11_Witness ==
  /\ Returned
  /\ line = CaseLine(<<"F", "o", "o">>, <<"D", "U", "P">>,
                     <<<<"F", "O", "O">>, <<"S", "w", "a", "p">>>>)
  /\ result = "Ok"
  /\ stack = <<1, 1>>

----------------------------------------------------------------------------
(* The command stage and the numerals, on the lines of SpecTokens.         *)

\* the token is an unsigned numeral
IsUnsigned(token) == parse_u32_is_ok(token)

\* C12 as claimed: when the command stage meets an unsigned numeral after the
\* commands a line begins with, the numeral and all that follows it are
\* discarded: the call ends as the commands alone end.
C12_Discarded ==
  LET toks == TokensOf(line) IN
    \A i \in 2..MaxTokens :
      (Ended /\ calls = 2 /\ Len(toks) >= i
         /\ (\A j \in 1..(i - 1) : IsCommand(toks[j]))
         /\ IsUnsigned(toks[i]))
        => Outcome = eval(stack0, words0, Phrase(SubSeq(toks, 1, i - 1)),
                          overflow_checks)

\* C12: the command stage discards nothing.  When it ends without an error it
\* has run the commands its input begins with and leaves the rest of the
\* input as it is: either nothing, and eval returns, or a text that begins
\* with an unsigned numeral, with which the next pass of the loop starts; so
\* "dup 1 1" on a stack that ends with x leaves x x 1 1 on top.
C12_Kept ==
  [][/\ (pc = "eval_commands" /\ result' \in {"Ok", "Running"})
          => LET toks == TokensOf(input)
                 rest == TokensOf(input')
                 k == Len(toks) - Len(rest)
             IN /\ k >= 0
                /\ rest = SubSeq(toks, k + 1, Len(toks))
                /\ \A j \in 1..k : IsCommand(toks[j])
                /\ rest # <<>> => IsUnsigned(rest[1]) /\ pc' = "eval_digits"
                /\ rest = <<>> => pc' = "idle"
     /\ (pc' = "idle" /\ calls' = 2 /\ stack0' # <<>>
           /\ line' = Phrase(<<CommandNames.Dup, Numeral(1), Numeral(1)>>))
          => /\ result' = "Ok"
             /\ stack' = stack0' \o <<Top(stack0'), 1, 1>>]_vars

\* "dup 1 1" on the stack [1, 1] has returned Ok with [1, 1, 1, 1, 1]
C12_Witness ==
  /\ Returned /\ calls = 2
  /\ line = Phrase(<<CommandNames.Dup, Numeral(1), Numeral(1)>>)
  /\ stack0 = <<1, 1>>
  /\ result = "Ok"
  /\ stack = <<1, 1, 1, 1, 1>>

----------------------------------------------------------------------------
(* A user word with the name of a command: a first call may declare swap   *)
(* as drop and push two cells, a second call evaluates a line of commands  *)
(* and numerals.                                                           *)

ShadowLines ==
  {Phrase(decl \o cells) :
     decl \in {<<>>, <<Declaration(CommandNames.Swap, <<CommandNames.Dropp>>)>>},
     cells \in {<<>>, <<Numeral(1), Numeral(2)>>}}

ShadowTokens == {CommandNames.Dup, CommandNames.Swap, Numeral(2)}

EvalShadow ==
  \E text \in ShadowLines : calls = 0 /\ Eval(text)

EvalShadowed ==
  \E tokens \in UNION {[1..n -> ShadowTokens] : n \in 1..MaxTokens} :
    calls = 1 /\ Eval(Phrase(tokens))

NextShadow == EvalShadow \/ EvalShadowed \/ Driver

SpecShadow == Init /\ [][NextShadow]_vars

\* the tokens, each key of the dictionary replaced by its value
Expanded(tokens, dict) ==
  [i \in 1..Len(tokens) |->
     IF IsKnownWord(tokens[i], dict) THEN dict[to_lowercase(tokens[i])]
     ELSE tokens[i]]

\* C13 as claimed: a token that is a key of the dictionary and the name of a
\* command is expanded wherever it stands in the line, also directly after a
\* command: the line ends as the line with swap replaced by its value ends
\* with the built-in commands alone.
C13_Priority ==
  (Ended /\ calls = 2 /\ CommandNames.Swap \in DOMAIN words0)
    => LET expanded == eval(stack0, EmptyWords,
                            Phrase(Expanded(TokensOf(line), words0)),
                            overflow_checks)
       IN result = expanded.result /\ stack = expanded.stack

----------------------------------------------------------------------------
(* Literals wherever they stand, on the lines of SpecTokens.               *)

\* C14 as claimed: a token made of an optional '-' and digits is pushed as
\* that integer whatever precedes it: when the tokens before the last one
\* evaluate without error, a line that ends with a literal returns Ok and
\* leaves the stack of those tokens with the literal on top.
C14_Literals ==
  LET toks == TokensOf(line)
      n == Len(toks)
      before == eval(stack0, words0, Phrase(SubSeq(toks, 1, n - 1)),
                     overflow_checks)
  IN (Ended /\ calls = 2 /\ n >= 1 /\ IsLiteral(toks[n])
        /\ (\A i \in 1..n : IsLiteral(toks[i]) \/ IsOperator(toks[i])
                              \/ IsCommand(toks[i]))
        /\ before.result = "Ok")
       => /\ result = "Ok"
          /\ stack = Append(before.stack, parse_i32(toks[n]).value)

----------------------------------------------------------------------------
(* The dictionary over several calls: lines that declare words in upper    *)
(* case, with extra spaces, with tabs, with a declaration inside a value,  *)
(* and malformed declarations.                                             *)

DictionaryTexts ==
  {Declaration(<<"F", "o", "o">>, <<Numeral(1)>>),
   <<":", " ", "f", "o", "o", " ", " ", "D", "U", "P", " ", "d", "u", "p", " ",
     " ", ";">>,
   <<":", "b", "a", "r", " ", "1", ";">>,
   <<"1", "\t", ":", "\t", "B", "a", "z", "\t", "2", "\t", ";">>,
   Declaration(<<"1">> \o Foo, <<Numeral(1)>>),
   Declaration(Foo, <<>>),
   <<":", " ", ";", " ", "f", "o", "o">>,
   <<":", " ", "f", "o", "o", " ", "1">>,
   Phrase(<<<<":">>, Foo, Numeral(1), <<":">>, Bar, Numeral(2), <<";">>, Foo,
            <<";">>>>),
   Phrase(<<<<":">>, <<"F", "O", "O">>, <<":">>, Bar, Numeral(1), <<";">>,
            <<";">>>>),
   Phrase(<<Declaration(<<"B", "a", "r">>, <<Foo>>), Bar>>),
   Foo}

EvalDictionaryText ==
  \E text \in DictionaryTexts : Eval(text)

NextDictionary == EvalDictionaryText \/ Driver

SpecDictionary == Init /\ [][NextDictionary]_vars

IsUpper(chr) == \E i \in 1..Len(UpperCase) : UpperCase[i] = chr

\* C15: in every state, every key of the dictionary is non-empty, has no
\* upper-case letter, no whitespace and no ';', and does not begin with a
\* digit; every value is non-empty and has no ';'.
C15_Dictionary ==
  \A key \in DOMAIN words :
    /\ key # <<>>
    /\ \A i \in 1..Len(key) :
         ~IsUpper(key[i]) /\ ~is_whitespace(key[i]) /\ key[i] # ";"
    /\ ~IsDigit(key[1])
    /\ words[key] # <<>>
    /\ \A i \in 1..Len(words[key]) : words[key][i] # ";"

\* after a call that declared Foo, a call with ": 1foo 1 ;" has returned
\* InvalidWord: the dictionary holds foo and no other key
C15_Witness ==
  /\ Returned /\ calls = 2
  /\ line = Declaration(<<"1">> \o Foo, <<Numeral(1)>>)
  /\ result = "InvalidWord"
  /\ DOMAIN words = {Foo}
  /\ DOMAIN words0 = {Foo}

----------------------------------------------------------------------------
(* What each stage leaves alone: calls of eval with literals, operators,   *)
(* commands, declarations (one malformed) and uses of a word, and calls of *)
(* stack between them.                                                     *)

FrameLines ==
  {Phrase(<<Numeral(1), Numeral(2), Declaration(Foo, <<CommandNames.Dup>>),
            Foo>>),
   Phrase(<<Numeral(1), Declaration(Foo, <<>>)>>),
   Phrase(<<Numeral(1), Numeral(2), <<"+">>, CommandNames.Dup>>),
   Phrase(<<Declaration(Bar, <<Numeral(1)>>), Bar, Bar>>),
   Phrase(<<Numeral(2), Foo, CommandNames.Swap, CommandNames.Dropp>>),
   Phrase(<<CommandNames.Over>>),
   Phrase(<<Numeral(1), Numeral(0), <<"/">>>>)}

EvalFrame ==
  \E text \in FrameLines : Eval(text)

NextFrame == EvalFrame \/ Driver \/ Stack

SpecFrame == Init /\ [][NextFrame]_vars

\* C16: the declaration stage and the expansion stage leave the stack as it
\* is; the digit, operator and command stages leave the dictionary as it is;
\* stack() changes neither and returns the stack, so a second stack() with no
\* eval in between returns what the first returned.
C16_Frame ==
  [][/\ pc \in {"eval_word_declarations", "eval_word"} => stack' = stack
     /\ pc \in {"eval_digits", "eval_operators", "eval_commands"}
          => words' = words
     /\ (pc = "idle" /\ calls' = calls)
          => /\ stack' = stack
             /\ words' = words
             /\ snapshot' = stack
             /\ snapshot = stack => snapshot' = snapshot]_vars

\* stack() has returned [1, 2, 2] after a call that declared foo
C16_Witness ==
  /\ pc = "idle" /\ calls = 1
  /\ snapshot = <<1, 2, 2>>
  /\ stack = <<1, 2, 2>>
  /\ Foo \in DOMAIN words

----------------------------------------------------------------------------
(* The stack a StackUnderflow leaves, on the calls of SpecSingle.          *)

\* C17: with no word shadowing the command names, dup or drop on an empty
\* stack returns StackUnderflow and leaves it empty; swap, over or an operator
\* on a stack of one cell returns StackUnderflow after popping that cell and
\* leaves the stack empty; no underflow leaves a cell that was not there.
C17_UnderflowState ==
  \A token \in SingleTokens :
    (Returned /\ calls = 2 /\ line = token /\ NoShadow(words0))
      => /\ (Needs(token) = 1 /\ stack0 = <<>>)
              => result = "StackUnderflow" /\ stack = <<>>
         /\ (Needs(token) = 2 /\ Len(stack0) = 1)
              => result = "StackUnderflow" /\ stack = <<>>
         /\ result = "StackUnderflow"
              => /\ Len(stack) <= Len(stack0)
                 /\ stack = SubSeq(stack0, 1, Len(stack))

\* over on the stack [1] has returned StackUnderflow and left the stack empty
C17_Witness ==
  /\ Returned /\ calls = 2
  /\ line = CommandNames.Over
  /\ NoShadow(words0)
  /\ stack0 = <<1>>
  /\ result = "StackUnderflow"
  /\ stack = <<>>

----------------------------------------------------------------------------
(* Lines that begin with a whitespace or control character: a first call   *)
(* prepares the stack and the dictionary, a second call evaluates such a   *)
(* line, or the empty line.                                                *)

BlankPreludes ==
  {<<>>, Phrase(<<Numeral(1), Numeral(2)>>),
   Phrase(<<Declaration(Foo, <<Numeral(1)>>), Numeral(2)>>)}

BlankChars == {" ", "\t", "\n", "\r", "NUL"}

TextsAfterBlank ==
  {<<>>, <<" ">>, <<"NUL", "\n">>, Numeral(1),
   Phrase(<<Numeral(1), Numeral(2), <<"+">>>>), Foo, CommandNames.Dup,
   Declaration(Bar, <<Numeral(1)>>), <<"+">>}

BlankLines ==
  {<<chr>> \o text : chr \in BlankChars, text \in TextsAfterBlank} \cup {<<>>}

EvalBlankPrelude ==
  \E text \in BlankPreludes : calls = 0 /\ Eval(text)

EvalBlank ==
  \E text \in BlankLines : calls = 1 /\ Eval(text)

NextBlank == EvalBlankPrelude \/ EvalBlank \/ Driver

SpecBlank == Init /\ [][NextBlank]_vars

\* C18: a line whose first character is a whitespace or a control character
\* returns UnknownWord and leaves the stack and the dictionary as they were,
\* whatever follows that character; the empty line returns Ok and changes
\* nothing.
C18_LeadingBlank ==
  (Ended /\ calls = 2)
    => /\ (line # <<>> /\ (is_whitespace(line[1]) \/ is_control(line[1])))
            => result = "UnknownWord" /\ stack = stack0 /\ words = words0
       /\ line = <<>> => result = "Ok" /\ stack = stack0 /\ words = words0

\* " 1 2 +" on the stack [2] with foo declared has returned UnknownWord and
\* pushed nothing
C18_Witness ==
  /\ Returned /\ calls = 2
  /\ line = <<" ">> \o Phrase(<<Numeral(1), Numeral(2), <<"+">>>>)
  /\ result = "UnknownWord"
  /\ stack0 = <<2>>
  /\ stack = <<2>>
  /\ DOMAIN words = {Foo}

----------------------------------------------------------------------------
(* The steps of eval and eval as a function agree on every call that has   *)
(* ended.                                                                  *)

StepsAgreeWithEval ==
  (pc \in {"idle", "aborted"} /\ calls > 0)
    => Outcome = eval(stack0, words0, line, overflow_checks)

====
